---- MODULE Spec2Model ----
(***************************************************************************)
(* Distribution, activation and registry update of the MinimalToken DAR:   *)
(* scripts/upload_dar.py and vet_dar.py.                                   *)
(*                                                                         *)
(* A Python str is modelled as a sequence of one-character strings, so     *)
(* that the f-string serialisation of packageConfig.js and the regular     *)
(* expressions that read it back operate on the characters of the file.    *)
(***************************************************************************)
EXTENDS Integers, Sequences, FiniteSets, TLC

(***************************************************************************)
(* Bounds of the model.                                                    *)
(***************************************************************************)
\* Number of runs (of either script) started in one behaviour.
MaxRuns == 3

(***************************************************************************)
(* Characters and strings.                                                 *)
(***************************************************************************)
\* Code point of a character (Python compares str by code point).
Ord(c) ==
    CASE c = "\n" -> 10
      [] c = " " -> 32
      [] c = "'" -> 39
      [] c = "," -> 44
      [] c = "." -> 46
      [] c = "0" -> 48
      [] c = "1" -> 49
      [] c = "9" -> 57
      [] c = ":" -> 58
      [] c = "a" -> 97
      [] c = "b" -> 98
      [] c = "c" -> 99
      [] c = "{" -> 123
      [] c = "}" -> 125

\* s < t for Python str: lexicographic by code point, a proper prefix first.
RECURSIVE StrLess(_, _)
StrLess(s, t) ==
    IF t = <<>> THEN FALSE
    ELSE IF s = <<>> THEN TRUE
    ELSE IF Head(s) = Head(t) THEN StrLess(Tail(s), Tail(t))
    ELSE Ord(Head(s)) < Ord(Head(t))

\* (v1, p1) < (v2, p2) for Python tuples of str.
ItemLess(a, b) ==
    IF a[1] = b[1] THEN StrLess(a[2], b[2]) ELSE StrLess(a[1], b[1])

\* Python None where a str is expected: no sequence of characters equals it.
None == << "<None>" >>

(***************************************************************************)
(* The text of packageConfig.js.                                           *)
(***************************************************************************)
\* Up to the value of currentVersion: the same in the template for a new
\* file and in the generated file.
TextHead ==
    << "/", "/", " ", "M", "i", "n", "i", "m", "a", "l", "T", "o", "k", "e",
       "n", " ", "P", "a", "c", "k", "a", "g", "e", " ", "C", "o", "n", "f",
       "i", "g", "u", "r", "a", "t", "i", "o", "n", "\n", "/", "/", " ", "T",
       "h", "i", "s", " ", "f", "i", "l", "e", " ", "i", "s", " ", "a", "u",
       "t", "o", "-", "g", "e", "n", "e", "r", "a", "t", "e", "d", " ", "b",
       "y", " ", "u", "p", "l", "o", "a", "d", "_", "d", "a", "r", ".", "p",
       "y", "\n", "\n", "e", "x", "p", "o", "r", "t", " ", "c", "o", "n",
       "s", "t", " ", "M", "I", "N", "I", "M", "A", "L", "_", "T", "O", "K",
       "E", "N", "_", "P", "A", "C", "K", "A", "G", "E", "_", "C", "O", "N",
       "F", "I", "G", " ", "=", " ", "{", "\n", " ", " ", "/", "/", " ", "C",
       "u", "r", "r", "e", "n", "t", " ", "a", "c", "t", "i", "v", "e", " ",
       "v", "e", "r", "s", "i", "o", "n", "\n", " ", " ", "c", "u", "r", "r",
       "e", "n", "t", "V", "e", "r", "s", "i", "o", "n", ":", " " >>

\* The rest of the template for a new file.
TextEmptyRest ==
    << "n", "u", "l", "l", ",", "\n", " ", " ", "c", "u", "r", "r", "e", "n",
       "t", "P", "a", "c", "k", "a", "g", "e", "I", "d", ":", " ", "n", "u",
       "l", "l", ",", "\n", "\n", " ", " ", "/", "/", " ", "A", "l", "l",
       " ", "d", "e", "p", "l", "o", "y", "e", "d", " ", "v", "e", "r", "s",
       "i", "o", "n", "s", "\n", " ", " ", "v", "e", "r", "s", "i", "o", "n",
       "s", ":", " ", "{", "}", "\n", "}", ";", "\n", "\n", "e", "x", "p",
       "o", "r", "t", " ", "d", "e", "f", "a", "u", "l", "t", " ", "M", "I",
       "N", "I", "M", "A", "L", "_", "T", "O", "K", "E", "N", "_", "P", "A",
       "C", "K", "A", "G", "E", "_", "C", "O", "N", "F", "I", "G", ";",
       "\n" >>

\* Between the value of currentVersion and that of currentPackageId.
TextMid1 ==
    << ",", "\n", " ", " ", "c", "u", "r", "r", "e", "n", "t", "P", "a", "c",
       "k", "a", "g", "e", "I", "d", ":", " " >>

\* Between the value of currentPackageId and the first entry.
TextMid2 ==
    << ",", "\n", "\n", " ", " ", "/", "/", " ", "A", "l", "l", " ", "d",
       "e", "p", "l", "o", "y", "e", "d", " ", "v", "e", "r", "s", "i", "o",
       "n", "s", " ", "(", "n", "e", "w", "e", "s", "t", " ", "f", "i", "r",
       "s", "t", ")", "\n", " ", " ", "v", "e", "r", "s", "i", "o", "n", "s",
       ":", " ", "{", "\n", " ", " ", " ", " " >>

\* After the last entry.
TextTail ==
    << "\n", " ", " ", "}", "\n", "}", ";", "\n", "\n", "e", "x", "p", "o",
       "r", "t", " ", "d", "e", "f", "a", "u", "l", "t", " ", "M", "I", "N",
       "I", "M", "A", "L", "_", "T", "O", "K", "E", "N", "_", "P", "A", "C",
       "K", "A", "G", "E", "_", "C", "O", "N", "F", "I", "G", ";", "\n" >>

\* The separator of the entries.
EntrySep ==
    << ",", "\n", " ", " ", " ", " " >>

\* The literal the first regular expression starts with.
LitVersions ==
    << "v", "e", "r", "s", "i", "o", "n", "s", ":" >>

(***************************************************************************)
(* dict of str to str: a function whose domain is the set of keys.         *)
(***************************************************************************)
EmptyDict == [k \in {} |-> <<>>]

\* d[k] = v
DictSet(d, k, v) ==
    [x \in DOMAIN d \cup {k} |-> IF x = k THEN v ELSE d[x]]

\* d.items()
Items(d) == { <<k, d[k]>> : k \in DOMAIN d }

\* The largest element of a non-empty set of items.
MaxItem(S) == CHOOSE a \in S : \A b \in S : b = a \/ ItemLess(b, a)

\* The smallest element of a non-empty set of items.
MinItem(S) == CHOOSE a \in S : \A b \in S : b = a \/ ItemLess(a, b)

\* sorted(S): ascending, which a missing reverse=True would give.
RECURSIVE SortedAscending(_)
SortedAscending(S) ==
    IF S = {} THEN <<>>
    ELSE LET a == MinItem(S) IN <<a>> \o SortedAscending(S \ {a})

\* sorted(S, reverse=True)
RECURSIVE SortedReverse(_)
SortedReverse(S) ==
    IF S = {} THEN <<>>
    ELSE LET a == MaxItem(S) IN <<a>> \o SortedReverse(S \ {a})

(***************************************************************************)
(* Serialisation.                                                          *)
(***************************************************************************)
\* '{s}' inside an f-string: the characters of s between two quotes.
Quoted(s) == <<"'">> \o s \o <<"'">>

\* f"'{v}': '{pid}'"
EntryText(item) == Quoted(item[1]) \o <<":", " ">> \o Quoted(item[2])

\* ",\n    ".join(...) over the entries in the given order.
RECURSIVE JoinEntries(_)
JoinEntries(items) ==
    IF items = <<>> THEN <<>>
    ELSE IF Len(items) = 1 THEN EntryText(items[1])
    ELSE EntryText(items[1]) \o EntrySep \o JoinEntries(Tail(items))

\* The registry file is kept as the three values the f-string interpolates;
\* FileText gives its characters.
AbsentFile ==
    [kind |-> "absent", currentVersion |-> None, currentPackageId |-> None,
     versions |-> <<>>]

\* The content used when packageConfig.js does not exist.
TemplateContent ==
    [kind |-> "template", currentVersion |-> None, currentPackageId |-> None,
     versions |-> <<>>]

\* new_content for a version, a package id and the sorted entries.
NewContent(version, package_id, items) ==
    [kind |-> "generated", currentVersion |-> version,
     currentPackageId |-> package_id, versions |-> items]

\* A file that holds other characters than a content written whole: an
\* empty file, the beginning of a text, a text followed by the end of a
\* longer one.
RawFile(text) == [kind |-> "raw", text |-> text]

\* The characters of a content.
FileText(c) ==
    IF c.kind = "raw" THEN c.text
    ELSE IF c.kind = "template" THEN TextHead \o TextEmptyRest
    ELSE TextHead \o Quoted(c.currentVersion) \o TextMid1
         \o Quoted(c.currentPackageId) \o TextMid2
         \o JoinEntries(c.versions) \o TextTail

(***************************************************************************)
(* Parsing: the two regular expressions of update_package_config.          *)
(***************************************************************************)
\* \s among the characters of the file.
Space == {" ", "\n"}

\* s[i .. i+Len(lit)-1] = lit
MatchLit(s, i, lit) ==
    /\ i + Len(lit) - 1 <= Len(s)
    /\ \A k \in 1..Len(lit) : s[i + k - 1] = lit[k]

\* The least element of a non-empty set of positions.
MinPos(S) == CHOOSE i \in S : \A j \in S : i <= j

\* End (exclusive) of the longest run of characters of cls starting at i.
SkipIn(s, i, cls) ==
    LET stops == { j \in i..Len(s) : s[j] \notin cls } IN
    IF stops = {} THEN Len(s) + 1 ELSE MinPos(stops)

\* End (exclusive) of the longest run of characters other than c from i.
SkipNot(s, i, c) ==
    LET stops == { j \in i..Len(s) : s[j] = c } IN
    IF stops = {} THEN Len(s) + 1 ELSE MinPos(stops)

NoMatch == [ok |-> FALSE, group1 |-> <<>>, group2 |-> <<>>, end |-> 0]

\* versions:\s*{([^}]*)} matched at position i.  Every quantifier is
\* followed by a character outside its class, so the greedy match is the
\* only one.
VersionsMatchAt(s, i) ==
    IF ~MatchLit(s, i, LitVersions) THEN NoMatch
    ELSE LET j == SkipIn(s, i + Len(LitVersions), Space) IN
         IF j > Len(s) \/ s[j] # "{" THEN NoMatch
         ELSE LET e == SkipNot(s, j + 1, "}") IN
              IF e > Len(s) THEN NoMatch
              ELSE [ok |-> TRUE, group1 |-> SubSeq(s, j + 1, e - 1),
                    group2 |-> <<>>, end |-> e + 1]

\* re.search: the leftmost match, among the positions that hold the first
\* character of the pattern.
SearchVersions(s) ==
    LET first == { i \in 1..Len(s) : s[i] = LitVersions[1] }
        starts == { i \in first : VersionsMatchAt(s, i).ok } IN
    IF starts = {} THEN NoMatch ELSE VersionsMatchAt(s, MinPos(starts))

\* '([^']+)':\s*'([^']+)' matched at position i.
EntryMatchAt(s, i) ==
    IF i > Len(s) \/ s[i] # "'" THEN NoMatch
    ELSE LET a == SkipNot(s, i + 1, "'") IN
         IF a = i + 1 \/ a > Len(s) THEN NoMatch
         ELSE IF a + 1 > Len(s) \/ s[a + 1] # ":" THEN NoMatch
         ELSE LET b == SkipIn(s, a + 2, Space) IN
              IF b > Len(s) \/ s[b] # "'" THEN NoMatch
              ELSE LET c == SkipNot(s, b + 1, "'") IN
                   IF c = b + 1 \/ c > Len(s) THEN NoMatch
                   ELSE [ok |-> TRUE, group1 |-> SubSeq(s, i + 1, a - 1),
                         group2 |-> SubSeq(s, b + 1, c - 1), end |-> c + 1]

\* re.finditer from position i on, storing each match in the dict d: the
\* leftmost match, then the leftmost one after its end, and so on.
RECURSIVE FindEntries(_, _, _)
FindEntries(s, i, d) ==
    LET starts == { j \in i..Len(s) : EntryMatchAt(s, j).ok } IN
    IF starts = {} THEN d
    ELSE LET m == EntryMatchAt(s, MinPos(starts)) IN
         FindEntries(s, m.end, DictSet(d, m.group1, m.group2))

\* The versions dict parsed out of a content.
ParseVersions(content) ==
    LET m == SearchVersions(FileText(content)) IN
    IF m.ok THEN FindEntries(m.group1, 1, EmptyDict) ELSE EmptyDict

\* update_package_config without "versions[version] = package_id".
UpdatedContentWithoutUpsert(content, package_id, version) ==
    NewContent(version, package_id,
               SortedReverse(Items(ParseVersions(content))))

\* update_package_config with its two arguments taken for one another.
UpdatedContentSwapped(content, package_id, version) ==
    LET versions == DictSet(ParseVersions(content), package_id, version) IN
    NewContent(package_id, version, SortedReverse(Items(versions)))

\* update_package_config without its file access: the content read, the
\* package id and the version give the content written.
UpdatedContent(content, package_id, version) ==
    LET versions == DictSet(ParseVersions(content), version, package_id) IN
    NewContent(version, package_id, SortedReverse(Items(versions)))

\* open(config_path, 'w'): the file exists and is empty.
EmptyFile == RawFile(<<>>)

\* The characters of a file after text was written at its beginning: what
\* the file held beyond the length of text is still there.
WrittenOver(text, old) ==
    IF Len(old) > Len(text)
    THEN text \o SubSeq(old, Len(text) + 1, Len(old))
    ELSE text

\* The file after the first n characters of the text of new were written
\* at the beginning of the file f.
FileAfterWrite(new, n, f) ==
    LET text == WrittenOver(SubSeq(FileText(new), 1, n), FileText(f)) IN
    IF text = FileText(new) THEN new ELSE RawFile(text)

(***************************************************************************)
(* Inputs of the runs.                                                     *)
(***************************************************************************)
Procs == {1, 2}

\* Runs executed one at a time are runs of the operator's shell.
Shell == 1

ProviderPort == 3902
UserPort == 2902

\* Exit status of grpcurl: 0, or 1 for any non-zero status.
ReturnCodes == {0, 1}

V_1_0 == << "1", ".", "0" >>
V_0_9 == << "0", ".", "9" >>
V_quote == << "1", "'" >>
V_brace == << "0", "}" >>

\* Version strings of the command line and of daml.yaml.
Versions == {V_1_0, V_0_9, V_quote, V_brace}

P_ab == << "a", "b" >>
P_c9 == << "c", "9" >>
P_quote == << "a", "'" >>

\* Package ids of the command line of vet_dar.py and of the darIds the
\* app-provider answers.
PackageIds == {P_ab, P_c9, P_quote}

\* sys.argv[1:] of upload_dar.py
UploadArgs ==
    {<<>>} \cup { <<v>> : v \in Versions } \cup {<< V_1_0, V_0_9 >>}

\* sys.argv[1:] of vet_dar.py
VetArgs ==
    {<<>>} \cup { <<i>> : i \in PackageIds } \cup {<< P_ab, P_c9 >>}

\* daml.yaml: missing, without a version, with an empty one, with a version.
YamlFiles ==
    {[exists |-> FALSE, version |-> None], [exists |-> TRUE, version |-> None],
     [exists |-> TRUE, version |-> <<>>]}
    \cup { [exists |-> TRUE, version |-> v] : v \in Versions }

\* stdout of the UploadDar call on app-provider: not JSON, JSON without
\* darIds, or JSON with a list of darIds.
UploadResponses ==
    {[json |-> FALSE, hasDarIds |-> FALSE, darIds |-> <<>>],
     [json |-> TRUE, hasDarIds |-> FALSE, darIds |-> <<>>]}
    \cup { [json |-> TRUE, hasDarIds |-> TRUE, darIds |-> l] :
             l \in {<<>>, << <<>> >>, << P_c9, P_ab >>}
                      \cup { <<i>> : i \in PackageIds } }

\* stdout of a call whose output is not read.
NoResponse == [json |-> FALSE, hasDarIds |-> FALSE, darIds |-> <<>>]

\* A grpcurl call: the method, the port, the package id of the request
\* (None for UploadDar), the exit status and the output.
Call(rpc, port, id, returncode, stdout) ==
    [rpc |-> rpc, port |-> port, package_id |-> id,
     returncode |-> returncode, stdout |-> stdout]

\* What the caller of the activation step holds afterwards.
ReturnsNone == [type |-> "None", values |-> <<>>]
ReturnsBools(l) == [type |-> "bools", values |-> l]

(***************************************************************************)
(* State.                                                                  *)
(***************************************************************************)
VARIABLES
    file,        \* src/config/packageConfig.js
    pc,          \* where each process is
    script,      \* the script each process runs
    version,     \* version of main() of upload_dar.py
    package_id,  \* package_id of upload_dar() and of main() of vet_dar.py
    calls,       \* the grpcurl calls of the run, in order
    content,     \* content read by update_package_config
    bufsize,     \* size of the buffer f.read() is filling
    vetted,      \* what the activation step returned to its caller
    exit_code,   \* exit status of the process
    opened,      \* number of times the run opened packageConfig.js to write
    wrote,       \* number of writes of packageConfig.js by the run
    failed,      \* the calls on packageConfig.js that failed in the run
    runs,        \* number of runs started
    completed    \* the runs of upload_dar.py that reached their end

vars ==
    << file, pc, script, version, package_id, calls, content, bufsize,
       vetted, exit_code, opened, wrote, failed, runs, completed >>

Init ==
    /\ file = AbsentFile
    /\ pc = [p \in Procs |-> "idle"]
    /\ script = [p \in Procs |-> "none"]
    /\ version = [p \in Procs |-> None]
    /\ package_id = [p \in Procs |-> None]
    /\ calls = [p \in Procs |-> <<>>]
    /\ content = [p \in Procs |-> AbsentFile]
    /\ bufsize = [p \in Procs |-> 0]
    /\ vetted = [p \in Procs |-> ReturnsNone]
    /\ exit_code = [p \in Procs |-> -1]
    /\ opened = [p \in Procs |-> 0]
    /\ wrote = [p \in Procs |-> 0]
    /\ failed = [p \in Procs |-> {}]
    /\ runs = 0
    /\ completed = <<>>

(***************************************************************************)
(* scripts/upload_dar.py                                                   *)
(***************************************************************************)
\* "not x" for a str or None.
Falsy(x) == x = None \/ x = <<>>

\* read_version_from_daml_yaml: the version, or sys.exit(1).
ReadVersionFromDamlYaml(yaml) ==
    IF ~yaml.exists THEN [exit |-> TRUE, version |-> None]
    ELSE IF Falsy(yaml.version) THEN [exit |-> TRUE, version |-> None]
    ELSE [exit |-> FALSE, version |-> yaml.version]

\* main up to get_dar_path: the version of the command line or of
\* daml.yaml, or sys.exit(1).
ResolveVersion(args, yaml) ==
    IF Len(args) + 1 > 2 THEN [exit |-> TRUE, version |-> None]
    ELSE IF Len(args) + 1 = 2 THEN [exit |-> FALSE, version |-> args[1]]
    ELSE ReadVersionFromDamlYaml(yaml)

\* A process starts: everything of its previous run is gone.
Begin(p, s) ==
    /\ pc[p] \in {"idle", "exit"}
    /\ runs < MaxRuns
    /\ runs' = runs + 1
    /\ script' = [script EXCEPT ![p] = s]
    /\ calls' = [calls EXCEPT ![p] = <<>>]
    /\ content' = [content EXCEPT ![p] = AbsentFile]
    /\ bufsize' = [bufsize EXCEPT ![p] = 0]
    /\ vetted' = [vetted EXCEPT ![p] = ReturnsNone]
    /\ opened' = [opened EXCEPT ![p] = 0]
    /\ wrote' = [wrote EXCEPT ![p] = 0]
    /\ failed' = [failed EXCEPT ![p] = {}]

\* main of upload_dar.py up to the first call of upload_dar: the version is
\* resolved and the DAR file looked for.
UploadMain(p) ==
    /\ Begin(p, "upload_dar")
    /\ \E args \in UploadArgs, yaml \in YamlFiles, dar_exists \in BOOLEAN :
           LET r == ResolveVersion(args, yaml) IN
           /\ version' = [version EXCEPT ![p] = r.version]
           /\ package_id' = [package_id EXCEPT ![p] = None]
           /\ IF r.exit \/ ~dar_exists
              THEN /\ pc' = [pc EXCEPT ![p] = "exit"]
                   /\ exit_code' = [exit_code EXCEPT ![p] = 1]
              ELSE /\ pc' = [pc EXCEPT ![p] = "upload_provider"]
                   /\ exit_code' = [exit_code EXCEPT ![p] = -1]
    /\ UNCHANGED << file, completed >>

\* The last darId of the response instead of the first.
ExtractLastPackageId(response) ==
    IF response.hasDarIds /\ response.darIds # <<>>
    THEN response.darIds[Len(response.darIds)]
    ELSE None

\* package_id of the response of app-provider.
ExtractPackageId(response) ==
    IF response.hasDarIds /\ response.darIds # <<>>
    THEN response.darIds[1]
    ELSE None

\* The same without the check of the exit status of the call.
AfterProviderUploadUnchecked(returncode, response) ==
    IF ~response.json THEN [next |-> "exit", package_id |-> None]
    ELSE LET id == ExtractPackageId(response) IN
         IF Falsy(id) THEN [next |-> "exit", package_id |-> id]
         ELSE [next |-> "upload_user", package_id |-> id]

\* The same without the check of the package id extracted.
AfterProviderUploadAcceptingNoId(returncode, response) ==
    IF returncode # 0 THEN [next |-> "exit", package_id |-> None]
    ELSE IF ~response.json THEN [next |-> "exit", package_id |-> None]
    ELSE [next |-> "upload_user", package_id |-> ExtractPackageId(response)]

\* upload_dar after the call on app-provider: sys.exit(1) on a failed call,
\* json.loads raising on an output that is not JSON, sys.exit(1) on a
\* missing package id.

AfterProviderUpload(returncode, response) ==
    IF returncode # 0 THEN [next |-> "exit", package_id |-> None]
    ELSE IF ~response.json THEN [next |-> "exit", package_id |-> None]
    ELSE LET id == ExtractPackageId(response) IN
         IF Falsy(id) THEN [next |-> "exit", package_id |-> id]
         ELSE [next |-> "upload_user", package_id |-> id]

\* The UploadDar call on app-provider (localhost:3902).
UploadProvider(p) ==
    /\ pc[p] = "upload_provider"
    /\ \E returncode \in ReturnCodes, response \in UploadResponses :
        LET r == AfterProviderUpload(returncode, response) IN
        /\ calls' = [calls EXCEPT ![p] = Append(@,
               Call("UploadDar", ProviderPort, None, returncode, response))]
        /\ package_id' = [package_id EXCEPT ![p] = r.package_id]
        /\ pc' = [pc EXCEPT ![p] = r.next]
        /\ exit_code' = [exit_code EXCEPT ![p] =
               IF r.next = "exit" THEN 1 ELSE @]
    /\ UNCHANGED << file, script, version, content, bufsize, vetted, opened,
                    wrote, failed, runs, completed >>

\* The same without the check of the exit status of the call.
AfterUserUploadUnchecked(returncode) == "vet_provider"

\* A failed upload to app-user tried again instead of sys.exit(1).
AfterUserUploadRetrying(returncode) ==
    IF returncode # 0 THEN "upload_user" ELSE "vet_provider"

\* upload_dar after the call on app-user: sys.exit(1) on a failed call.

AfterUserUpload(returncode) ==
    IF returncode # 0 THEN "exit" ELSE "vet_provider"

\* The UploadDar call on app-user (localhost:2902).
UploadUser(p) ==
    /\ pc[p] = "upload_user"
    /\ \E returncode \in ReturnCodes :
        LET next == AfterUserUpload(returncode) IN
        /\ calls' = [calls EXCEPT ![p] = Append(@,
               Call("UploadDar", UserPort, None, returncode, NoResponse))]
        /\ pc' = [pc EXCEPT ![p] = next]
        /\ exit_code' = [exit_code EXCEPT ![p] =
               IF next = "exit" THEN 1 ELSE @]
    /\ UNCHANGED << file, script, version, package_id, content, bufsize,
                    vetted, opened, wrote, failed, runs, completed >>

\* A failed activation treated like a failed upload: sys.exit(1).
AfterProviderVetExitingOnFailure(returncode) ==
    IF returncode # 0 THEN "exit" ELSE "vet_user"

\* A failed activation ending vet_dar: the call on app-user is skipped.
AfterProviderVetReturningOnFailure(returncode) ==
    IF returncode # 0 THEN "read_config" ELSE "vet_user"

\* vet_dar after the call on app-provider: a warning or a success message,
\* and the call on app-user follows.

AfterProviderVet(returncode) ==
    IF returncode # 0 THEN "vet_user" ELSE "vet_user"

\* The VetDar call on app-provider (localhost:3902).
VetProvider(p) ==
    /\ pc[p] = "vet_provider"
    /\ \E returncode \in ReturnCodes :
        LET next == AfterProviderVet(returncode) IN
        /\ calls' = [calls EXCEPT ![p] = Append(@,
               Call("VetDar", ProviderPort, package_id[p], returncode,
                    NoResponse))]
        /\ pc' = [pc EXCEPT ![p] = next]
        /\ exit_code' = [exit_code EXCEPT ![p] =
               IF next = "exit" THEN 1 ELSE @]
    /\ UNCHANGED << file, script, version, package_id, content, bufsize,
                    vetted, opened, wrote, failed, runs, completed >>

\* vet_dar after the call on app-user: a warning or a success message; the
\* function ends without a return statement, upload_dar returns package_id
\* and main calls update_package_config.
AfterUserVet(returncode) ==
    IF returncode # 0
    THEN [next |-> "read_config", returns |-> ReturnsNone]
    ELSE [next |-> "read_config", returns |-> ReturnsNone]

\* The VetDar call on app-user (localhost:2902).
VetUser(p) ==
    /\ pc[p] = "vet_user"
    /\ \E returncode \in ReturnCodes :
        LET r == AfterUserVet(returncode) IN
        /\ calls' = [calls EXCEPT ![p] = Append(@,
               Call("VetDar", UserPort, package_id[p], returncode,
                    NoResponse))]
        /\ pc' = [pc EXCEPT ![p] = r.next]
        /\ vetted' = [vetted EXCEPT ![p] = r.returns]
    /\ UNCHANGED << file, script, version, package_id, content, bufsize,
                    exit_code, opened, wrote, failed, runs, completed >>

\* The number of characters a read of f.read() asks for when the size of
\* the file gives it no smaller number.
SmallChunk == 8192

\* The buffer f.read() starts with: one character more than the file holds
\* when it starts, SmallChunk characters for a file that holds none.
BufferSize(size) == IF size > 0 THEN size + 1 ELSE SmallChunk

\* The buffer of f.read() once bytes_read characters have filled it.
NewBufferSize(bytes_read) ==
    LET addend == IF bytes_read > 65536 THEN bytes_read \div 8
                  ELSE 256 + bytes_read IN
    bytes_read + (IF addend < SmallChunk THEN SmallChunk ELSE addend)

\* What one read of f.read() returns: the characters of the file from the
\* position the last read ended at, as many as the buffer has room for.
ReadChunk(f, bytes_read, size) ==
    LET last == IF Len(FileText(f)) < size THEN Len(FileText(f)) ELSE size IN
    SubSeq(FileText(f), bytes_read + 1, last)

\* The content after a read that returned chunk.
ContentAfterRead(c, chunk, f) ==
    LET text == FileText(c) \o chunk IN
    IF text = FileText(f) THEN f ELSE RawFile(text)

\* os.path.exists(config_path): without the file update_package_config
\* takes the template.
ConfigExists(p) ==
    /\ pc[p] = "read_config"
    /\ IF file.kind = "absent"
       THEN /\ content' = [content EXCEPT ![p] = TemplateContent]
            /\ pc' = [pc EXCEPT ![p] = "open_config"]
       ELSE /\ content' = content
            /\ pc' = [pc EXCEPT ![p] = "open_read"]
    /\ UNCHANGED << file, script, version, package_id, calls, bufsize,
                    vetted, exit_code, opened, wrote, failed, runs,
                    completed >>

\* open(config_path, 'r'): the file is open at its beginning, no character
\* is read yet.
OpenRead(p) ==
    /\ pc[p] = "open_read"
    /\ content' = [content EXCEPT ![p] = EmptyFile]
    /\ pc' = [pc EXCEPT ![p] = "read_size"]
    /\ UNCHANGED << file, script, version, package_id, calls, bufsize,
                    vetted, exit_code, opened, wrote, failed, runs,
                    completed >>

\* f.read() begins: it asks for the size of the file as it is by then and
\* takes its buffer.
ReadSize(p) ==
    /\ pc[p] = "read_size"
    /\ bufsize' = [bufsize EXCEPT ![p] = BufferSize(Len(FileText(file)))]
    /\ pc' = [pc EXCEPT ![p] = "read_file"]
    /\ UNCHANGED << file, script, version, package_id, calls, content,
                    vetted, exit_code, opened, wrote, failed, runs,
                    completed >>

\* One read of f.read(): the buffer grows when it is full, the read asks
\* for the characters the buffer has room for, and a read that returns no
\* character is the end of the file and of f.read().
ReadConfig(p) ==
    /\ pc[p] = "read_file"
    /\ LET bytes_read == Len(FileText(content[p]))
           size == IF bytes_read >= bufsize[p]
                   THEN NewBufferSize(bytes_read) ELSE bufsize[p]
           chunk == ReadChunk(file, bytes_read, size)
       IN  /\ bufsize' = [bufsize EXCEPT ![p] = size]
           /\ IF chunk = <<>>
              THEN /\ content' = content
                   /\ pc' = [pc EXCEPT ![p] = "open_config"]
              ELSE /\ content' = [content EXCEPT ![p] =
                          ContentAfterRead(@, chunk, file)]
                   /\ pc' = pc
    /\ UNCHANGED << file, script, version, package_id, calls, vetted,
                    exit_code, opened, wrote, failed, runs, completed >>

\* update_package_config parses the content, adds the version, and opens
\* packageConfig.js to write: the file is created or truncated.
OpenConfig(p) ==
    /\ pc[p] = "open_config"
    /\ file' = EmptyFile
    /\ opened' = [opened EXCEPT ![p] = @ + 1]
    /\ pc' = [pc EXCEPT ![p] = "write_config"]
    /\ UNCHANGED << script, version, package_id, calls, content, bufsize,
                    vetted, exit_code, wrote, failed, runs, completed >>

\* update_package_config writes new_content from the beginning of the file
\* it opened and closes it; main prints and ends.
WriteConfig(p) ==
    /\ pc[p] = "write_config"
    /\ LET new == UpdatedContent(content[p], package_id[p], version[p]) IN
       file' = FileAfterWrite(new, Len(FileText(new)), file)
    /\ wrote' = [wrote EXCEPT ![p] = @ + 1]
    /\ pc' = [pc EXCEPT ![p] = "exit"]
    /\ exit_code' = [exit_code EXCEPT ![p] = 0]
    /\ completed' = Append(completed,
           [run |-> runs, version |-> version[p],
            package_id |-> package_id[p]])
    /\ UNCHANGED << script, version, package_id, calls, content, bufsize,
                    vetted, opened, failed, runs >>

(***************************************************************************)
(* vet_dar.py                                                              *)
(***************************************************************************)
\* main of vet_dar.py up to the first call of vet_dar_on_participant.
VetMain(p) ==
    /\ Begin(p, "vet_dar")
    /\ version' = [version EXCEPT ![p] = None]
    /\ \E args \in VetArgs :
           IF Len(args) + 1 # 2
           THEN /\ pc' = [pc EXCEPT ![p] = "exit"]
                /\ exit_code' = [exit_code EXCEPT ![p] = 1]
                /\ package_id' = [package_id EXCEPT ![p] = None]
           ELSE /\ pc' = [pc EXCEPT ![p] = "vet_on_provider"]
                /\ exit_code' = [exit_code EXCEPT ![p] = -1]
                /\ package_id' = [package_id EXCEPT ![p] = args[1]]
    /\ UNCHANGED << file, completed >>

\* vet_dar_on_participant: False on a failed call, True otherwise.
VetDarOnParticipant(returncode) ==
    IF returncode # 0 THEN FALSE ELSE TRUE

\* success_provider = vet_dar_on_participant(package_id, 3902, ...)
VetOnProvider(p) ==
    /\ pc[p] = "vet_on_provider"
    /\ \E returncode \in ReturnCodes :
        /\ calls' = [calls EXCEPT ![p] = Append(@,
               Call("VetDar", ProviderPort, package_id[p], returncode,
                    NoResponse))]
        /\ vetted' = [vetted EXCEPT ![p] =
               ReturnsBools(<< VetDarOnParticipant(returncode) >>)]
    /\ pc' = [pc EXCEPT ![p] = "vet_on_user"]
    /\ UNCHANGED << file, script, version, package_id, content, bufsize,
                    exit_code, opened, wrote, failed, runs, completed >>

\* Status 0 as soon as one of the two calls succeeded.
VetExitCodeEither(success_provider, success_user) ==
    IF success_provider \/ success_user THEN 0 ELSE 1

\* main of vet_dar.py after both calls: sys.exit(1) unless both succeeded.
VetExitCode(success_provider, success_user) ==
    IF success_provider /\ success_user THEN 0 ELSE 1

\* success_user = vet_dar_on_participant(package_id, 2902, ...), and the end
\* of main.
VetOnUser(p) ==
    /\ pc[p] = "vet_on_user"
    /\ \E returncode \in ReturnCodes :
        LET success_user == VetDarOnParticipant(returncode) IN
        /\ calls' = [calls EXCEPT ![p] = Append(@,
               Call("VetDar", UserPort, package_id[p], returncode,
                    NoResponse))]
        /\ vetted' = [vetted EXCEPT ![p] =
               ReturnsBools(Append(@.values, success_user))]
        /\ exit_code' = [exit_code EXCEPT ![p] =
               VetExitCode(vetted[p].values[1], success_user)]
    /\ pc' = [pc EXCEPT ![p] = "exit"]
    /\ UNCHANGED << file, script, version, package_id, content, bufsize,
                    opened, wrote, failed, runs, completed >>

(***************************************************************************)
(* Specification: runs executed one at a time.                             *)
(***************************************************************************)
Next ==
    \/ UploadMain(Shell)
    \/ UploadProvider(Shell)
    \/ UploadUser(Shell)
    \/ VetProvider(Shell)
    \/ VetUser(Shell)
    \/ ConfigExists(Shell)
    \/ OpenRead(Shell)
    \/ ReadSize(Shell)
    \/ ReadConfig(Shell)
    \/ OpenConfig(Shell)
    \/ WriteConfig(Shell)
    \/ VetMain(Shell)
    \/ VetOnProvider(Shell)
    \/ VetOnUser(Shell)

Spec == Init /\ [][Next]_vars

(***************************************************************************)
(* Vocabulary of the properties.                                           *)
(***************************************************************************)
IsUploadRun(p) == script[p] = "upload_dar"

IsVetRun(p) == script[p] = "vet_dar"

\* The run has made its i-th call, and it was this method on this port.
CallIs(p, i, rpc, port) ==
    /\ Len(calls[p]) >= i
    /\ calls[p][i].rpc = rpc
    /\ calls[p][i].port = port

\* The calls of a method the run has made.
CallsOf(p, rpc) == { i \in DOMAIN calls[p] : calls[p][i].rpc = rpc }

\* The run has sent an activation request for its package id to the port.
VetSent(p, port) ==
    \E i \in CallsOf(p, "VetDar") :
        /\ calls[p][i].port = port
        /\ calls[p][i].package_id = package_id[p]

\* The upload call to app-provider has returned failure.
ProviderUploadFailed(p) ==
    /\ IsUploadRun(p)
    /\ CallIs(p, 1, "UploadDar", ProviderPort)
    /\ calls[p][1].returncode # 0

\* The upload call to app-user has returned failure.
UserUploadFailed(p) ==
    /\ IsUploadRun(p)
    /\ CallIs(p, 2, "UploadDar", UserPort)
    /\ calls[p][2].returncode # 0

\* Both upload calls have returned success.
UploadsSucceeded(p) ==
    /\ IsUploadRun(p)
    /\ CallIs(p, 1, "UploadDar", ProviderPort)
    /\ calls[p][1].returncode = 0
    /\ CallIs(p, 2, "UploadDar", UserPort)
    /\ calls[p][2].returncode = 0

\* The run of upload_dar.py has reached its end.
Completed(p) == IsUploadRun(p) /\ pc[p] = "exit" /\ exit_code[p] = 0

\* The entries of a registry content, as a set of (version, id) pairs: the
\* entries written, or for a file not written whole the entries a reader
\* finds in it.
EntrySet(c) ==
    IF c.kind = "raw" THEN Items(ParseVersions(c))
    ELSE { c.versions[i] : i \in DOMAIN c.versions }

\* The identifiers a registry content holds for a version.
EntriesFor(c, v) == { e[2] : e \in { x \in EntrySet(c) : x[1] = v } }

\* A process has opened packageConfig.js to write and has not written yet.
WriteInProgress == \E p \in Procs : pc[p] = "write_config"

(***************************************************************************)
(* Properties.                                                             *)
(***************************************************************************)
\* C1: when the upload call to app-provider has returned failure, the run
\* has aborted with a non-zero status, has sent nothing after that call (no
\* activation request in particular) and has not written the registry.
C1_ProviderUploadFailureAborts ==
    \A p \in Procs :
        ProviderUploadFailed(p) =>
            /\ pc[p] = "exit"
            /\ exit_code[p] = 1
            /\ Len(calls[p]) = 1
            /\ CallsOf(p, "VetDar") = {}
            /\ opened[p] = 0
            /\ wrote[p] = 0

\* A run aborted by the failure of app-provider while a registry written by
\* an earlier run exists.
C1_Witness ==
    \E p \in Procs :
        /\ ProviderUploadFailed(p)
        /\ pc[p] = "exit"
        /\ file.kind = "generated"
        /\ completed # <<>>

\* C2: when the upload call to app-user has returned failure (the one to
\* app-provider having succeeded), the run has aborted with a non-zero
\* status, no activation request has been sent to either node and the
\* registry has not been written.
C2_UserUploadFailureAborts ==
    \A p \in Procs :
        UserUploadFailed(p) =>
            /\ calls[p][1].returncode = 0
            /\ pc[p] = "exit"
            /\ exit_code[p] = 1
            /\ Len(calls[p]) = 2
            /\ CallsOf(p, "VetDar") = {}
            /\ opened[p] = 0
            /\ wrote[p] = 0

\* A run aborted by the failure of app-user after app-provider had answered
\* a package id.
C2_Witness ==
    \E p \in Procs :
        /\ UserUploadFailed(p)
        /\ pc[p] = "exit"
        /\ package_id[p] \in PackageIds
        /\ calls[p][1].returncode = 0

\* C3: a run whose uploads all succeeded is in the activation stage, in the
\* registry update or at its end, whatever the activation calls returned;
\* at its end it has status 0, has made both activation calls, has written
\* the registry once and the registry holds its package id for its version.
C3_ActivationFailureDoesNotBlockRegistry ==
    \A p \in Procs :
        UploadsSucceeded(p) =>
            /\ pc[p] \in {"vet_provider", "vet_user", "read_config",
                          "open_read", "read_size", "read_file",
                          "open_config", "write_config", "exit"}
            /\ pc[p] = "exit" =>
                /\ exit_code[p] = 0
                /\ Len(calls[p]) = 4
                /\ opened[p] = 1
                /\ wrote[p] = 1
                /\ file.kind = "generated"
                /\ EntriesFor(file, version[p]) = {package_id[p]}

\* A run that reached its end and wrote the registry although both
\* activation calls failed.
C3_Witness ==
    \E p \in Procs :
        /\ UploadsSucceeded(p)
        /\ pc[p] = "exit"
        /\ CallIs(p, 3, "VetDar", ProviderPort)
        /\ calls[p][3].returncode # 0
        /\ CallIs(p, 4, "VetDar", UserPort)
        /\ calls[p][4].returncode # 0
        /\ wrote[p] = 1

\* C4: after a run of upload_dar.py that reached its end, the registry holds
\* for the run's version exactly the first darId of the response of
\* app-provider, and currentVersion is the run's version.
C4_RegistryHoldsFirstDarId ==
    \A p \in Procs :
        Completed(p) =>
            /\ file.kind = "generated"
            /\ EntriesFor(file, version[p]) = {calls[p][1].stdout.darIds[1]}
            /\ file.currentVersion = version[p]

\* A completed run whose response carried two darIds and which found
\* another identifier for its version in the registry.
C4_Witness ==
    \E p \in Procs :
        /\ Completed(p)
        /\ Len(calls[p][1].stdout.darIds) = 2
        /\ content[p].kind = "generated"
        /\ EntriesFor(content[p], version[p]) # {}
        /\ EntriesFor(content[p], version[p]) # {package_id[p]}
        /\ content[p].currentVersion # version[p]

\* C5: once a run of upload_dar.py has reached its end, currentVersion and
\* currentPackageId of the registry are the version and the package id of
\* the last run that did, whatever runs were started or aborted since (a
\* state in which a run is writing the registry apart).
C5_LastCompletedRunIsCurrent ==
    (completed # <<>> /\ ~WriteInProgress) =>
        LET last == completed[Len(completed)] IN
        /\ file.kind = "generated"
        /\ file.currentVersion = last.version
        /\ file.currentPackageId = last.package_id

\* C6: after a completed run that read a registry written by an earlier
\* run, the registry holds only the run's package id for the run's version
\* and every entry it held for another version is still there.
C6_OtherEntriesUnaffected ==
    \A p \in Procs :
        (Completed(p) /\ content[p].kind = "generated") =>
            /\ EntriesFor(file, version[p]) = {package_id[p]}
            /\ \A e \in EntrySet(content[p]) :
                   e[1] # version[p] => e \in EntrySet(file)

\* C7: parsing the registry as the next registry update does gives the
\* version-to-identifier mapping that was written.
C7_RoundTrip ==
    file.kind = "generated" => Items(ParseVersions(file)) = EntrySet(file)

\* C8: in every written registry the entries are in strictly descending
\* order of their version strings.
C8_EntriesSortedDescending ==
    file.kind = "generated" =>
        \A i \in 1..(Len(file.versions) - 1) :
            StrLess(file.versions[i + 1][1], file.versions[i][1])

\* A registry of three entries whose versions were written in ascending
\* order, the current version being neither the first nor the last entry.
C8_Witness ==
    /\ file.kind = "generated"
    /\ Len(file.versions) = 3
    /\ Len(completed) = 3
    /\ StrLess(completed[1].version, completed[2].version)
    /\ StrLess(completed[3].version, completed[2].version)
    /\ file.currentVersion = file.versions[2][1]

\* The run has passed the activation stage.
ActivationPassed(p) ==
    \/ UploadsSucceeded(p) /\ pc[p] \notin {"vet_provider", "vet_user"}
    \/ IsVetRun(p) /\ package_id[p] # None /\ pc[p] = "exit"

\* C9: a run in the activation stage that has had the answer of app-provider
\* is about to call app-user, and a run that has passed the activation stage
\* has sent an activation request for its package id to app-provider and to
\* app-user, whatever the first of them returned.
C9_ActivationSentToEveryNode ==
    \A p \in Procs :
        /\ ActivationPassed(p) =>
               VetSent(p, ProviderPort) /\ VetSent(p, UserPort)
        /\ (IsVetRun(p) /\ pc[p] = "vet_on_user") => VetSent(p, ProviderPort)
        /\ (IsUploadRun(p) /\ pc[p] = "vet_user") => VetSent(p, ProviderPort)

\* A run of each script in which the activation on app-provider failed and
\* the request to app-user was sent all the same.
C9_Witness ==
    \E p \in Procs :
        /\ ActivationPassed(p)
        /\ IsUploadRun(p)
        /\ calls[p][3].returncode # 0
        /\ VetSent(p, UserPort)

C9_WitnessVetScript ==
    \E p \in Procs :
        /\ ActivationPassed(p)
        /\ IsVetRun(p)
        /\ calls[p][1].returncode # 0
        /\ VetSent(p, UserPort)

\* C10: once the activation step of upload_dar.py is over, its caller holds
\* one outcome per node, each telling whether the call on that node
\* succeeded.
C10_OutcomesReturned ==
    \A p \in Procs :
        (UploadsSucceeded(p) /\ ActivationPassed(p)) =>
            /\ vetted[p].type = "bools"
            /\ Len(vetted[p].values) = 2
            /\ \A i \in 1..2 :
                   vetted[p].values[i] = (calls[p][i + 2].returncode = 0)

\* The response of app-provider carries a non-empty list of darIds.
HasDarId(response) ==
    response.json /\ response.hasDarIds /\ response.darIds # <<>>

\* C11 as stated: a run of upload_dar.py holds a package id exactly when the
\* upload call to app-provider has returned success.
C11_IdIffProviderUploadSucceeded ==
    \A p \in Procs :
        IsUploadRun(p) =>
            (package_id[p] # None <=>
                (CallIs(p, 1, "UploadDar", ProviderPort)
                 /\ calls[p][1].returncode = 0))

\* C11 amended: a run of upload_dar.py holds a package id exactly when the
\* upload call to app-provider has returned success with a response that
\* carries a non-empty list of darIds, and it is the first of them.
C11_IdIffProviderAnsweredDarId ==
    \A p \in Procs :
        IsUploadRun(p) =>
            /\ package_id[p] # None <=>
                   (/\ CallIs(p, 1, "UploadDar", ProviderPort)
                    /\ calls[p][1].returncode = 0
                    /\ HasDarId(calls[p][1].stdout))
            /\ package_id[p] # None =>
                   package_id[p] = calls[p][1].stdout.darIds[1]

\* The upload on app-provider succeeded, its response has no darIds, and the
\* run holds no package id.
C11_Witness ==
    \E p \in Procs :
        /\ IsUploadRun(p)
        /\ CallIs(p, 1, "UploadDar", ProviderPort)
        /\ calls[p][1].returncode = 0
        /\ calls[p][1].stdout.json
        /\ ~HasDarId(calls[p][1].stdout)
        /\ package_id[p] = None
        /\ pc[p] = "exit"

(***************************************************************************)
(* Specification with failures of the access to packageConfig.js.          *)
(***************************************************************************)
\* os.path.exists(config_path) is False for a file that exists, the stat
\* of the path having failed: update_package_config takes the template.
ConfigExistsFails(p) ==
    /\ pc[p] = "read_config"
    /\ file.kind # "absent"
    /\ content' = [content EXCEPT ![p] = TemplateContent]
    /\ failed' = [failed EXCEPT ![p] = @ \cup {"exists"}]
    /\ pc' = [pc EXCEPT ![p] = "open_config"]
    /\ UNCHANGED << file, script, version, package_id, calls, bufsize,
                    vetted, exit_code, opened, wrote, runs, completed >>

\* open(config_path, 'r') or a read of f.read() raises: the exception ends
\* the process with status 1.
ReadConfigFails(p) ==
    /\ pc[p] \in {"open_read", "read_file"}
    /\ failed' = [failed EXCEPT ![p] = @ \cup {"read"}]
    /\ pc' = [pc EXCEPT ![p] = "exit"]
    /\ exit_code' = [exit_code EXCEPT ![p] = 1]
    /\ UNCHANGED << file, script, version, package_id, calls, content,
                    bufsize, vetted, opened, wrote, runs, completed >>

\* os.makedirs or open(config_path, 'w') raises: the file is as it was and
\* the exception ends the process with status 1.
OpenConfigFails(p) ==
    /\ pc[p] = "open_config"
    /\ failed' = [failed EXCEPT ![p] = @ \cup {"open"}]
    /\ pc' = [pc EXCEPT ![p] = "exit"]
    /\ exit_code' = [exit_code EXCEPT ![p] = 1]
    /\ UNCHANGED << file, script, version, package_id, calls, content,
                    bufsize, vetted, opened, wrote, runs, completed >>

\* Numbers of characters the process can write to the file before the
\* write raises (a full disk, a quota, a limit on the size of files).
FileSizeLimits == {0, 100}

\* f.write or the close of the file raises after the file was opened: the
\* file holds the characters written until then, and the exception ends
\* the process with status 1.  They are the first characters of the new
\* content up to a limit, or all of them: the close raises after the write
\* was made, or the write that failed is made again at the close.
WriteConfigFails(p) ==
    /\ pc[p] = "write_config"
    /\ LET new == UpdatedContent(content[p], package_id[p], version[p])
           whole == Len(FileText(new))
       IN  \E n \in { m \in FileSizeLimits : m < whole } \cup {whole} :
               file' = FileAfterWrite(new, n, file)
    /\ failed' = [failed EXCEPT ![p] = @ \cup {"write"}]
    /\ pc' = [pc EXCEPT ![p] = "exit"]
    /\ exit_code' = [exit_code EXCEPT ![p] = 1]
    /\ UNCHANGED << script, version, package_id, calls, content, bufsize,
                    vetted, opened, wrote, runs, completed >>

\* Number of runs started in one behaviour with such failures.
MaxIoRuns == 2

IoNext ==
    \/ runs < MaxIoRuns /\ UploadMain(Shell)
    \/ UploadProvider(Shell)
    \/ UploadUser(Shell)
    \/ VetProvider(Shell)
    \/ VetUser(Shell)
    \/ ConfigExists(Shell)
    \/ OpenRead(Shell)
    \/ ReadSize(Shell)
    \/ ReadConfig(Shell)
    \/ ConfigExistsFails(Shell)
    \/ ReadConfigFails(Shell)
    \/ OpenConfig(Shell)
    \/ OpenConfigFails(Shell)
    \/ WriteConfig(Shell)
    \/ WriteConfigFails(Shell)
    \/ runs < MaxIoRuns /\ VetMain(Shell)
    \/ VetOnProvider(Shell)
    \/ VetOnUser(Shell)

IoSpec == Init /\ [][IoNext]_vars

\* The fatal errors of a run of upload_dar.py that has ended.
VersionOrArtifactMissing(p) == version[p] = None \/ Len(calls[p]) = 0

NoIdentifierReturned(p) ==
    /\ CallIs(p, 1, "UploadDar", ProviderPort)
    /\ calls[p][1].returncode = 0
    /\ ~calls[p][1].stdout.json \/ Falsy(ExtractPackageId(calls[p][1].stdout))

\* A call of update_package_config on packageConfig.js failed: the test of
\* its existence, its opening or reading, its opening to write, its writing.
RegistryAccessFailed(p) == failed[p] # {}

FatalError(p) ==
    \/ VersionOrArtifactMissing(p)
    \/ ProviderUploadFailed(p)
    \/ NoIdentifierReturned(p)
    \/ UserUploadFailed(p)
    \/ RegistryAccessFailed(p)

\* C12: a run of upload_dar.py that has ended has status 1 if a fatal error
\* occurred (no version, no DAR file, a failed upload, no package id in the
\* response, packageConfig.js not read or not written) and status 0
\* otherwise, whatever the activation calls returned.
C12_ExitStatus ==
    \A p \in Procs :
        (IsUploadRun(p) /\ pc[p] = "exit") =>
            /\ exit_code[p] \in {0, 1}
            /\ exit_code[p] = 1 <=> FatalError(p)
            /\ exit_code[p] = 0 =>
                   /\ Len(calls[p]) = 4
                   /\ wrote[p] = 1

\* A run that ended with status 0 although both activation calls failed.
C12_Witness ==
    \E p \in Procs :
        /\ IsUploadRun(p)
        /\ pc[p] = "exit"
        /\ exit_code[p] = 0
        /\ CallIs(p, 3, "VetDar", ProviderPort)
        /\ calls[p][3].returncode # 0
        /\ CallIs(p, 4, "VetDar", UserPort)
        /\ calls[p][4].returncode # 0
        /\ ~FatalError(p)

\* A run that ended with status 1 because packageConfig.js could not be
\* written, after uploads and activations that all succeeded.
C12_WitnessRegistryFailure ==
    \E p \in Procs :
        /\ IsUploadRun(p)
        /\ pc[p] = "exit"
        /\ exit_code[p] = 1
        /\ failed[p] = {"write"}
        /\ \A i \in 1..4 : calls[p][i].returncode = 0

\* C12 but for the test of the existence of packageConfig.js: a run of
\* upload_dar.py in which that test did not fail has status 1 if a fatal
\* error occurred and status 0 otherwise.
C12_ExitStatusUnlessExistsFails ==
    \A p \in Procs :
        (IsUploadRun(p) /\ pc[p] = "exit" /\ "exists" \notin failed[p]) =>
            /\ exit_code[p] \in {0, 1}
            /\ exit_code[p] = 1 <=> FatalError(p)

\* A run that ended with status 0 although it could not see the registry
\* an earlier run had written: it wrote the registry from the template, and
\* the entry of the earlier run is gone.
C12_ExistsFailureExitsZero ==
    \E p \in Procs :
        /\ IsUploadRun(p)
        /\ pc[p] = "exit"
        /\ exit_code[p] = 0
        /\ failed[p] = {"exists"}
        /\ Len(completed) = 2
        /\ completed[1].version # completed[2].version
        /\ file.kind = "generated"
        /\ EntriesFor(file, completed[1].version) = {}

(***************************************************************************)
(* Specification with two processes: nothing synchronises their runs.      *)
(***************************************************************************)
\* Number of runs started in one behaviour of the two processes.
MaxConcRuns == 2

ConcNext ==
    \E p \in Procs :
        \/ runs < MaxConcRuns /\ UploadMain(p)
        \/ UploadProvider(p)
        \/ UploadUser(p)
        \/ VetProvider(p)
        \/ VetUser(p)
        \/ ConfigExists(p)
        \/ OpenRead(p)
        \/ ReadSize(p)
        \/ ReadConfig(p)
        \/ OpenConfig(p)
        \/ WriteConfig(p)
        \/ runs < MaxConcRuns /\ VetMain(p)
        \/ VetOnProvider(p)
        \/ VetOnUser(p)

ConcSpec == Init /\ [][ConcNext]_vars

\* All runs so far were runs of one process, hence one at a time.
OneAtATime == \E q \in Procs : pc[q] = "idle"

\* C13, the runs executed one at a time: between the writes, the version of
\* every run of upload_dar.py that reached its end is a key of the registry.
C13_SequentialRunsKeepKeys ==
    (OneAtATime /\ ~WriteInProgress) =>
        \A i \in DOMAIN completed :
            EntriesFor(file, completed[i].version) # {}

\* C13, the concurrent runs: two runs for different versions have both read
\* the registry before either wrote it, both have reached their end, and
\* the registry lacks the entry of one of them.
C13_LostUpdate ==
    /\ \A p \in Procs : Completed(p) /\ wrote[p] = 1
    /\ version[1] = V_1_0
    /\ version[2] = V_0_9
    /\ content[1] = content[2]
    /\ \E p \in Procs : EntriesFor(file, version[p]) = {}

\* C14: in a run of upload_dar.py the first call is the upload to
\* app-provider; the second is the upload to app-user, sent only after a
\* successful upload to app-provider that gave a package id; an activation
\* request is sent only after both uploads succeeded, to app-provider then
\* to app-user; packageConfig.js is read and written only after both
\* activation requests were sent.
C14_StagesInOrder ==
    \A p \in Procs :
        IsUploadRun(p) =>
            /\ Len(calls[p]) <= 4
            /\ Len(calls[p]) >= 1 => CallIs(p, 1, "UploadDar", ProviderPort)
            /\ Len(calls[p]) >= 2 =>
                   /\ CallIs(p, 2, "UploadDar", UserPort)
                   /\ calls[p][1].returncode = 0
                   /\ HasDarId(calls[p][1].stdout)
                   /\ ~Falsy(package_id[p])
            /\ Len(calls[p]) >= 3 =>
                   /\ CallIs(p, 3, "VetDar", ProviderPort)
                   /\ UploadsSucceeded(p)
            /\ Len(calls[p]) >= 4 => CallIs(p, 4, "VetDar", UserPort)
            /\ (\/ pc[p] \in {"read_config", "open_read", "read_size",
                            "read_file", "open_config", "write_config"}
                \/ opened[p] > 0
                \/ wrote[p] > 0) =>
                   Len(calls[p]) = 4

\* A run that went through every stage, every call succeeding, and wrote
\* the registry.
C14_Witness ==
    \E p \in Procs :
        /\ Completed(p)
        /\ wrote[p] = 1
        /\ Len(calls[p]) = 4
        /\ \A i \in 1..4 : calls[p][i].returncode = 0

\* The response is JSON and carries no identifier: no darIds, an empty list
\* of darIds, or an empty first darId.
CarriesNoIdentifier(response) ==
    /\ response.json
    /\ \/ ~response.hasDarIds
       \/ response.darIds = <<>>
       \/ response.darIds[1] = <<>>

\* C15: when the upload call to app-provider has returned success with a
\* response that carries no identifier, the run has aborted with status 1
\* after that one call (no upload to app-user, no activation request) and
\* has not written the registry.
C15_NoIdentifierAborts ==
    \A p \in Procs :
        (/\ IsUploadRun(p)
         /\ CallIs(p, 1, "UploadDar", ProviderPort)
         /\ calls[p][1].returncode = 0
         /\ CarriesNoIdentifier(calls[p][1].stdout)) =>
            /\ pc[p] = "exit"
            /\ exit_code[p] = 1
            /\ Len(calls[p]) = 1
            /\ opened[p] = 0
            /\ wrote[p] = 0

\* A run aborted on a response whose first darId is empty, a registry
\* written by an earlier run being there.
C15_Witness ==
    \E p \in Procs :
        /\ IsUploadRun(p)
        /\ CallIs(p, 1, "UploadDar", ProviderPort)
        /\ calls[p][1].returncode = 0
        /\ calls[p][1].stdout.darIds = << <<>> >>
        /\ pc[p] = "exit"
        /\ file.kind = "generated"

\* The calls of a method on a port the run has made.
CallsTo(p, rpc, port) ==
    { i \in CallsOf(p, rpc) : calls[p][i].port = port }

\* C16: a run (of either script) has made at most one upload call and at
\* most one activation call on each node, whatever these calls returned.
C16_NoRetries ==
    \A p \in Procs :
        \A rpc \in {"UploadDar", "VetDar"}, port \in {ProviderPort, UserPort} :
            Cardinality(CallsTo(p, rpc, port)) <= 1

\* A run that reached its end after a failed activation on app-provider,
\* with exactly one call of each method on each node.
C16_Witness ==
    \E p \in Procs :
        /\ Completed(p)
        /\ calls[p][3].returncode # 0
        /\ calls[p][4].returncode = 0
        /\ \A rpc \in {"UploadDar", "VetDar"},
              port \in {ProviderPort, UserPort} :
               Cardinality(CallsTo(p, rpc, port)) = 1

\* C17: every activation request of a run of upload_dar.py carries the first
\* darId of the response of app-provider to that run, and a run that reached
\* its end has written that same identifier as the entry of its version and
\* as currentPackageId.
C17_OneIdentifierPerRun ==
    \A p \in Procs :
        IsUploadRun(p) =>
            /\ \A i \in CallsOf(p, "VetDar") :
                   calls[p][i].package_id = calls[p][1].stdout.darIds[1]
            /\ Completed(p) =>
                   /\ EntriesFor(file, version[p])
                          = {calls[p][1].stdout.darIds[1]}
                   /\ file.currentPackageId = calls[p][1].stdout.darIds[1]

\* A completed run: both activation requests and the registry carry the
\* first of the two darIds app-provider answered, the registry having held
\* another current package id before.
C17_Witness ==
    \E p \in Procs :
        /\ Completed(p)
        /\ calls[p][1].stdout.darIds = << P_c9, P_ab >>
        /\ calls[p][3].package_id = P_c9
        /\ calls[p][4].package_id = P_c9
        /\ file.currentPackageId = P_c9
        /\ content[p].kind = "generated"
        /\ content[p].currentPackageId # P_c9

\* C18: in every written registry the entries hold, for currentVersion,
\* exactly currentPackageId.
C18_CurrentPairIsAnEntry ==
    file.kind = "generated" =>
        EntriesFor(file, file.currentVersion) = {file.currentPackageId}

\* Three runs completed, the third replacing the identifier the first wrote
\* for the same version, which is not the highest of the registry.
C18_Witness ==
    /\ file.kind = "generated"
    /\ Len(completed) = 3
    /\ completed[1].version = completed[3].version
    /\ completed[1].package_id # completed[3].package_id
    /\ Len(file.versions) = 2
    /\ file.versions[2] = << file.currentVersion, file.currentPackageId >>
    /\ file.currentPackageId = completed[3].package_id

\* C19: a run of vet_dar.py given one package id that has ended has made two
\* calls, the activation on app-provider then the activation on app-user,
\* both for that package id, and its status is 0 if both succeeded and 1
\* otherwise; without exactly one argument it has made no call and its
\* status is 1.
C19_VetScript ==
    \A p \in Procs :
        (IsVetRun(p) /\ pc[p] = "exit") =>
            IF package_id[p] = None
            THEN calls[p] = <<>> /\ exit_code[p] = 1
            ELSE /\ Len(calls[p]) = 2
                 /\ CallIs(p, 1, "VetDar", ProviderPort)
                 /\ CallIs(p, 2, "VetDar", UserPort)
                 /\ \A i \in 1..2 : calls[p][i].package_id = package_id[p]
                 /\ exit_code[p] \in {0, 1}
                 /\ exit_code[p] = 0 <=>
                        \A i \in 1..2 : calls[p][i].returncode = 0

\* A run of vet_dar.py whose activation on app-provider failed: the one on
\* app-user was made and succeeded, and the status is 1.
C19_Witness ==
    \E p \in Procs :
        /\ IsVetRun(p)
        /\ pc[p] = "exit"
        /\ Len(calls[p]) = 2
        /\ calls[p][1].returncode # 0
        /\ calls[p][2].returncode = 0
        /\ exit_code[p] = 1

(***************************************************************************)
(* Specification with fairness: every remote call returns, and the process *)
(* goes on to its next statement or ends on an exception.                  *)
(***************************************************************************)
\* A step of a run that has started, other than the write of the registry.
RunStep(p) ==
    \/ UploadProvider(p)
    \/ UploadUser(p)
    \/ VetProvider(p)
    \/ VetUser(p)
    \/ ConfigExists(p)
    \/ OpenRead(p)
    \/ ReadSize(p)
    \/ ReadConfig(p)
    \/ OpenConfig(p)
    \/ VetOnProvider(p)
    \/ VetOnUser(p)

\* WriteConfig(p) is enabled exactly when pc[p] = "write_config" and leaves
\* that label, as WriteConfigFails(p) does, so weak fairness of WriteConfig(p)
\* is the formula below.
WriteConfigFair(p) == []<>(pc[p] # "write_config")

FairSpec ==
    Init /\ [][IoNext]_vars /\ WF_vars(RunStep(Shell)) /\ WriteConfigFair(Shell)

\* The run has started and has not ended.
Running(p) == pc[p] \notin {"idle", "exit"}

\* The run of upload_dar.py has ended: aborted without having opened or
\* written the registry, or completed having opened and written it once.
Terminal(p) ==
    /\ pc[p] = "exit"
    /\ \/ exit_code[p] = 1 /\ opened[p] = 0 /\ wrote[p] = 0
       \/ exit_code[p] = 0 /\ opened[p] = 1 /\ wrote[p] = 1

\* C20: every run of upload_dar.py that has started ends, and a run that has
\* ended has either aborted with the registry untouched or completed
\* having written it exactly once.
C20_RunsTerminate ==
    /\ [](\A p \in Procs : (IsUploadRun(p) /\ pc[p] = "exit") => Terminal(p))
    /\ \A p \in Procs :
           (IsUploadRun(p) /\ Running(p)) ~> (IsUploadRun(p) /\ Terminal(p))

\* C20, the termination alone: every run of upload_dar.py that has started
\* ends.
C20_EveryRunEnds ==
    \A p \in Procs : (IsUploadRun(p) /\ Running(p)) ~> (pc[p] = "exit")

\* A run aborted by the failure of its write has ended and left the
\* registry empty, an earlier run having written it.
C20_TruncatedRegistry ==
    \E p \in Procs :
        /\ IsUploadRun(p)
        /\ pc[p] = "exit"
        /\ exit_code[p] = 1
        /\ opened[p] = 1
        /\ content[p].kind = "generated"
        /\ file = EmptyFile

\* A run aborted by the failure of the close of the file has ended with
\* status 1 and left the whole of its new content in the registry: the
\* current version is its own, not that of the run completed before it.
C20_AbortedRunWroteRegistry ==
    \E p \in Procs :
        /\ IsUploadRun(p)
        /\ pc[p] = "exit"
        /\ exit_code[p] = 1
        /\ failed[p] = {"write"}
        /\ wrote[p] = 0
        /\ Len(completed) = 1
        /\ file.kind = "generated"
        /\ file.currentVersion = version[p]
        /\ file.currentVersion # completed[1].version
        /\ EntriesFor(file, completed[1].version) = {completed[1].package_id}

====
